---- MODULE Spec2Model ----
(***************************************************************************)
(* Model of src/server.py, the "EVAA" MCP tool server: the tag extractor,  *)
(* the path-to-tenant rule, the three form tools and the retrieval tool.   *)
(*                                                                         *)
(* Strings are sequences of lexemes.  A lexeme is an indivisible piece of  *)
(* text: one character ("[", "]", " ", "/", "?", "&") or a run of other    *)
(* characters that the code never looks inside ("SESSION_ID:", "fp01",     *)
(* "hr4s", ...).  The literal "[SESSION_ID:" of the source is therefore    *)
(* the two lexemes <<"[", "SESSION_ID:">>, and "[" can stand apart from    *)
(* its key.  Python's None is the value NULL, which no string equals.      *)
(***************************************************************************)
EXTENDS Integers, Sequences, FiniteSets, TLC

VARIABLES
    message,    \* extractor: the raw string handed to extract_context_from_message
    context,    \* extractor: the dict it returned
    recontext,  \* extractor: the dict returned for context['clean_message']
    path,       \* path rule: the argument of get_bot_id_from_path
    derived,    \* path rule: its return value
    step,       \* position of the two function drivers above
    config,     \* the names imported from config (lines 11-18)
    index,      \* the Pinecone index handle (line 26)
    calls       \* the tool invocations in progress, one record per caller

vars == <<message, context, recontext, path, derived, step, config, index, calls>>

----------------------------------------------------------------------------
(* Bounds *)

MaxMsgLen == 6     \* lexemes in a raw message of the extractor specification
MaxNestLen == 8    \* lexemes in a message of the nested-tag specification
MaxPathLen == 4    \* lexemes in a path
MaxTags == 2       \* tag parts in front of the text of a tool query
MaxTs == 2         \* distinct clock readings
MaxCallers == 2    \* tool invocations in flight at once

----------------------------------------------------------------------------
(* Python values *)

NULL == <<"None">>

\* All strings of at most n lexemes over the alphabet A.
Strs(A, n) == UNION {[1..k -> A] : k \in 0..n}

\* Python truthiness of an Optional[str]: None and "" are falsy.
Truthy(x) == x # NULL /\ x # <<>>

\* Python `a or b` on Optional[str].
PyOr(a, b) == IF Truthy(a) THEN a ELSE b

\* `sub in s`
Contains(s, sub) ==
    \E i \in 1..(Len(s) - Len(sub) + 1) : SubSeq(s, i, i + Len(sub) - 1) = sub

IsSpace(ch) == ch = " "

RECURSIVE LStrip(_)
LStrip(s) == IF s # <<>> /\ IsSpace(Head(s)) THEN LStrip(Tail(s)) ELSE s

RECURSIVE RStrip(_)
RStrip(s) ==
    IF s # <<>> /\ IsSpace(s[Len(s)]) THEN RStrip(SubSeq(s, 1, Len(s) - 1)) ELSE s

\* str.strip()
Strip(s) == RStrip(LStrip(s))

RECURSIVE LStripCh(_, _)
LStripCh(s, ch) == IF s # <<>> /\ Head(s) = ch THEN LStripCh(Tail(s), ch) ELSE s

RECURSIVE RStripCh(_, _)
RStripCh(s, ch) ==
    IF s # <<>> /\ s[Len(s)] = ch THEN RStripCh(SubSeq(s, 1, Len(s) - 1), ch) ELSE s

\* str.strip(ch)
StripCh(s, ch) == RStripCh(LStripCh(s, ch), ch)

\* str.split(sep): the list of pieces between separators; "" gives [""].
RECURSIVE Split(_, _)
Split(s, sep) ==
    LET I == {i \in 1..Len(s) : s[i] = sep}
    IN  IF I = {} THEN <<s>>
        ELSE LET i == CHOOSE k \in I : \A m \in I : k <= m
             IN  <<SubSeq(s, 1, i - 1)>> \o Split(SubSeq(s, i + 1, Len(s)), sep)

----------------------------------------------------------------------------
(* The regular expressions of extract_context_from_message *)

SESSION_TAG == <<"[", "SESSION_ID:">>
PATH_TAG == <<"[", "PATH:">>
BOT_TAG == <<"[", "BOT_ID:">>

\* Position of the first "]" at or after position from, 0 when there is none.
FirstClose(s, from) ==
    LET C == {j \in from..Len(s) : s[j] = "]"}
    IN  IF C = {} THEN 0 ELSE CHOOSE j \in C : \A k \in C : j <= k

\* Whether  prefix \s*([^\]]+)\]  matches at position i: the prefix is there and
\* the first "]" after it leaves at least one character for the group.
SearchMatchesAt(s, prefix, i) ==
    /\ i + 1 <= Len(s)
    /\ SubSeq(s, i, i + 1) = prefix
    /\ FirstClose(s, i + 2) > i + 2

\* group(1) of that match: \s* is greedy but gives one character back when
\* the whole content is whitespace, since [^\]]+ needs one.
SearchGroupAt(s, i) ==
    LET content == SubSeq(s, i + 2, FirstClose(s, i + 2) - 1)
        rest == LStrip(content)
    IN  IF rest # <<>> THEN rest ELSE <<content[Len(content)]>>

\* re.search(prefix \s*([^\]]+)\], s): group(1).strip() of the leftmost match,
\* NULL when nothing matches (the field keeps its initial None).
re_search(s, prefix) ==
    LET M == {i \in 1..Len(s) : SearchMatchesAt(s, prefix, i)}
    IN  IF M = {} THEN NULL
        ELSE Strip(SearchGroupAt(s, CHOOSE i \in M : \A k \in M : i <= k))

\* re.sub(prefix [^\]]*\]\s*, '', s): every leftmost non-overlapping match is
\* deleted together with the whitespace run that follows it.
RECURSIVE re_sub(_, _)
re_sub(s, prefix) ==
    IF s = <<>> THEN <<>>
    ELSE IF Len(s) >= 2 /\ SubSeq(s, 1, 2) = prefix /\ FirstClose(s, 3) # 0
         THEN re_sub(LStrip(SubSeq(s, FirstClose(s, 3) + 1, Len(s))), prefix)
         ELSE <<Head(s)>> \o re_sub(Tail(s), prefix)

\* Mutant: line 53 without .strip().
extract_context_no_strip(msg) ==
    [session_id    |-> re_search(msg, SESSION_TAG),
     path          |-> re_search(msg, PATH_TAG),
     bot_id        |-> re_search(msg, BOT_TAG),
     clean_message |-> re_sub(re_sub(re_sub(msg, SESSION_TAG), PATH_TAG), BOT_TAG)]

extract_context_from_message(msg) ==
    [session_id    |-> re_search(msg, SESSION_TAG),
     path          |-> re_search(msg, PATH_TAG),
     bot_id        |-> re_search(msg, BOT_TAG),
     clean_message |-> Strip(re_sub(re_sub(re_sub(msg, SESSION_TAG), PATH_TAG), BOT_TAG))]

\* The dict `context = {}` of a tool whose gate is closed: every get() is None.
NoContext ==
    [session_id |-> NULL, path |-> NULL, bot_id |-> NULL, clean_message |-> NULL]

\* Mutant: line 62 without .strip('/').
get_bot_id_no_strip(p) ==
    IF ~Truthy(p) THEN <<>>
    ELSE LET parts == Split(p, "/") IN parts[Len(parts)]

get_bot_id_from_path(p) ==
    IF ~Truthy(p) THEN <<>>
    ELSE LET parts == Split(StripCh(p, "/"), "/") IN parts[Len(parts)]

----------------------------------------------------------------------------
(* The tools *)

FALLBACK_SESSION == <<"fallback-session-id">>
DEFAULT_NAMESPACE == <<"hr4s">>
RESERVED_BOT == <<"fp01">>
TOP_K == 7
TOP_N == 5

Callers == 1..MaxCallers

\* Outcome of a handler's try block: a value, or an exception with its str().
Value(v) == [ok |-> TRUE, value |-> v]
Raise(e) == [ok |-> FALSE, error |-> e]

\* The gate of lines 70, 102, 133 and 167.
HasTagPrefix(query) ==
    /\ Truthy(query)
    /\ \/ Contains(query, SESSION_TAG)
       \/ Contains(query, PATH_TAG)
       \/ Contains(query, BOT_TAG)

\* Mutant: lines 75-76 left out.
form_context_no_fallback(query, session_id, bot_id) ==
    LET gate == HasTagPrefix(query)
        ctx == IF gate THEN extract_context_from_message(query) ELSE NoContext
    IN  [bot_id |-> IF gate THEN PyOr(ctx.bot_id, bot_id) ELSE bot_id,
         session_id |-> IF gate THEN PyOr(ctx.session_id, session_id) ELSE session_id]

\* Lines 69-76 (and 101-108, 132-139): the locals bot_id and session_id of a
\* form tool once the query has been looked at.
form_context(query, session_id, bot_id) ==
    LET gate == HasTagPrefix(query)
        ctx == IF gate THEN extract_context_from_message(query) ELSE NoContext
        bot == IF gate THEN PyOr(ctx.bot_id, bot_id) ELSE bot_id
        sid == IF gate THEN PyOr(ctx.session_id, session_id) ELSE session_id
    IN  [bot_id |-> bot,
         session_id |-> IF ~Truthy(sid) THEN FALLBACK_SESSION ELSE sid]

\* Mutant: the separator does not look at the url.
separator_always_question(url) == "?"

\* '&' if '?' in url else '?'
separator(url) == IF Contains(url, <<"?">>) THEN "&" ELSE "?"

\* Lines 79-80: `'?' in url` raises TypeError when the configured url is None.
form_url_with_session(url, session_id, now) ==
    IF url = NULL
    THEN Raise(<<"argument of type 'NoneType' is not iterable">>)
    ELSE Value(url \o <<separator(url), "session_id=">> \o session_id
                   \o <<"&ts=", ToString(now)>>)

success_payload(reply, url, session_id) ==
    [reply |-> reply, form_url |-> url, success |-> TRUE, session_id |-> session_id]

failure_payload(reply, error) ==
    [reply |-> reply, success |-> FALSE, error |-> error]

\* The try/except of a form tool: the payload handed to json.dumps.
form_result(ok_reply, fail_reply, url, session_id, now) ==
    LET built == form_url_with_session(url, session_id, now)
    IN  IF built.ok
        THEN [pc |-> "returned", result |-> success_payload(ok_reply, built.value, session_id)]
        ELSE [pc |-> "returned", result |-> failure_payload(fail_reply, built.error)]

\* Line 78
book_form_url(bot_id) ==
    IF bot_id = RESERVED_BOT THEN config.FORM_URL_2 ELSE config.FORM_URL_1

IdleCall ==
    [pc |-> "idle", tool |-> "none", query |-> NULL, session_id |-> NULL,
     bot_id |-> NULL, now |-> 0,
     request |-> [namespace |-> NULL, text |-> NULL, top_k |-> 0, top_n |-> 0],
     response |-> [kind |-> "none", hits |-> <<>>, error |-> <<>>],
     result |-> failure_payload(NULL, NULL)]

Invoked(tool, query, session_id, bot_id, now) ==
    [IdleCall EXCEPT !.tool = tool, !.query = query, !.session_id = session_id,
                     !.bot_id = bot_id, !.now = now]

\* The call record of a form tool that has returned.
Returned(tool, query, session_id, bot_id, now, done) ==
    [Invoked(tool, query, session_id, bot_id, now)
        EXCEPT !.pc = done.pc, !.result = done.result]

\* Mutant: the stamped URL is kept in the module-level FORM_URL_1.
book_appointment_tool_keeps_url(c, query, session_id, bot_id, now) ==
    /\ calls[c].pc = "idle"
    /\ LET r == form_context(query, session_id, bot_id)
           done == form_result(<<"I'm opening the appointment booking form for you.">>,
                               <<"Sorry, I couldn't open the booking form at this moment.">>,
                               book_form_url(r.bot_id), r.session_id, now)
       IN  /\ calls' = [calls EXCEPT ![c] =
                    Returned("book", query, session_id, bot_id, now, done)]
           /\ config' = IF done.result.success
                        THEN [config EXCEPT !.FORM_URL_1 = done.result.form_url]
                        ELSE config
    /\ UNCHANGED <<message, context, recontext, path, derived, step, index>>

book_appointment_tool(c, query, session_id, bot_id, now) ==
    /\ calls[c].pc = "idle"
    /\ LET r == form_context(query, session_id, bot_id)
       IN  calls' = [calls EXCEPT ![c] =
                Returned("book", query, session_id, bot_id, now,
                    form_result(<<"I'm opening the appointment booking form for you.">>,
                                <<"Sorry, I couldn't open the booking form at this moment.">>,
                                book_form_url(r.bot_id), r.session_id, now))]
    /\ UNCHANGED <<message, context, recontext, path, derived, step, config, index>>

cancel_appointment_tool(c, query, session_id, bot_id, now) ==
    /\ calls[c].pc = "idle"
    /\ LET r == form_context(query, session_id, bot_id)
       IN  calls' = [calls EXCEPT ![c] =
                Returned("cancel", query, session_id, bot_id, now,
                    form_result(<<"I'm opening the appointment cancellation form for you.">>,
                                <<"Sorry, I couldn't open the appointment cancellation form at this moment.">>,
                                config.cancelAppointmentFormUrl, r.session_id, now))]
    /\ UNCHANGED <<message, context, recontext, path, derived, step, config, index>>

reschedule_appointment_tool(c, query, session_id, bot_id, now) ==
    /\ calls[c].pc = "idle"
    /\ LET r == form_context(query, session_id, bot_id)
       IN  calls' = [calls EXCEPT ![c] =
                Returned("reschedule", query, session_id, bot_id, now,
                    form_result(<<"I'm opening the appointment rescheduling form for you.">>,
                                <<"Sorry, I couldn't open the appointment rescheduling form at this moment.">>,
                                config.rescheduleAppointmentFormUrl, r.session_id, now))]
    /\ UNCHANGED <<message, context, recontext, path, derived, step, config, index>>

\* Mutant: line 170 with the operands of `or` exchanged.
rag_context_explicit_first(query, session_id, bot_id) ==
    LET gate == HasTagPrefix(query)
        ctx == IF gate THEN extract_context_from_message(query) ELSE NoContext
        bot == IF gate THEN PyOr(bot_id, ctx.bot_id) ELSE bot_id
        bot2 == IF ~Truthy(bot) /\ Truthy(ctx.path)
                THEN get_bot_id_from_path(ctx.path) ELSE bot
    IN  [namespace |-> IF Truthy(bot2) THEN bot2 ELSE DEFAULT_NAMESPACE,
         text |-> IF gate THEN ctx.clean_message ELSE query]

\* Lines 166-176: the namespace and the query text of the search.
rag_context(query, session_id, bot_id) ==
    LET gate == HasTagPrefix(query)
        ctx == IF gate THEN extract_context_from_message(query) ELSE NoContext
        bot == IF gate THEN PyOr(ctx.bot_id, bot_id) ELSE bot_id
        bot2 == IF ~Truthy(bot) /\ Truthy(ctx.path)
                THEN get_bot_id_from_path(ctx.path) ELSE bot
    IN  [namespace |-> IF Truthy(bot2) THEN bot2 ELSE DEFAULT_NAMESPACE,
         text |-> IF gate THEN ctx.clean_message ELSE query]

\* Lines 165-189: up to the call of index.search_records, which blocks.
rag_retrieval_tool(c, query, session_id, bot_id) ==
    LET r == rag_context(query, session_id, bot_id)
    IN  /\ calls[c].pc = "idle"
        /\ calls' = [calls EXCEPT ![c] =
                [Invoked("rag", query, session_id, bot_id, 0)
                    EXCEPT !.pc = "searching",
                           !.request = [namespace |-> r.namespace, text |-> r.text,
                                        top_k |-> TOP_K, top_n |-> TOP_N]]]
        /\ UNCHANGED <<message, context, recontext, path, derived, step, config, index>>

\* What the backend may do with a request: hits, no hits, or an exception.
Outcomes ==
    {[kind |-> "hits", hits |-> <<"hit1", "hit2">>, error |-> <<>>],
     [kind |-> "hits", hits |-> <<>>, error |-> <<>>],
     [kind |-> "raise", hits |-> <<>>, error |-> <<"timeout">>]}

\* index.search_records answers the request of caller c.
search_records(c, outcome) ==
    /\ calls[c].pc = "searching"
    /\ calls' = [calls EXCEPT ![c].pc = "responded", ![c].response = outcome]
    /\ UNCHANGED <<message, context, recontext, path, derived, step, config, index>>

NOT_FOUND == <<"Sorry, I couldn't find any relevant information.">>

\* Mutant: lines 192-193 left out.
rag_format_no_empty_check(response) ==
    IF response.kind = "raise" THEN Raise(response.error)
    ELSE Value(<<"Here's what I found:\n\n">> \o response.hits)

\* Lines 191-195
rag_format(response) ==
    IF response.kind = "raise" THEN Raise(response.error)
    ELSE IF response.hits = <<>> THEN Value(NOT_FOUND)
    ELSE Value(<<"Here's what I found:\n\n">> \o response.hits)

\* Mutant: no except clause, the exception leaves the tool.
rag_result_no_except(response) ==
    LET r == rag_format(response)
    IN  IF r.ok THEN [pc |-> "returned", result |-> r.value]
        ELSE [pc |-> "raised", result |-> r.error]

\* Lines 191-198: the rest of the try block and the except clause.
rag_result(response) ==
    LET r == rag_format(response)
    IN  IF r.ok THEN [pc |-> "returned", result |-> r.value]
        ELSE [pc |-> "returned",
              result |-> <<"Error retrieving context from Pinecone: ">> \o r.error]

rag_retrieval_return(c) ==
    /\ calls[c].pc = "responded"
    /\ LET done == rag_result(calls[c].response)
       IN  calls' = [calls EXCEPT ![c].pc = done.pc, ![c].result = done.result]
    /\ UNCHANGED <<message, context, recontext, path, derived, step, config, index>>

\* The caller takes the returned string; the slot is free for the next call.
Complete(c) ==
    /\ calls[c].pc = "returned"
    /\ calls' = [calls EXCEPT ![c] = IdleCall]
    /\ UNCHANGED <<message, context, recontext, path, derived, step, config, index>>

----------------------------------------------------------------------------
(* Inputs of the tools *)

\* The names imported from config (lines 11-18); a name the deployment left
\* unset is None.
PlainConfig ==
    [FORM_URL_1 |-> <<"https://forms/book">>,
     FORM_URL_2 |-> <<"https://forms/book-fp01">>,
     cancelAppointmentFormUrl |-> <<"https://forms/cancel">>,
     rescheduleAppointmentFormUrl |-> <<"https://forms/reschedule">>]

QueryConfig ==
    [FORM_URL_1 |-> <<"https://forms/book", "?", "v=1">>,
     FORM_URL_2 |-> <<"https://forms/book-fp01", "?", "v=1">>,
     cancelAppointmentFormUrl |-> <<"https://forms/cancel", "?", "v=1">>,
     rescheduleAppointmentFormUrl |-> <<"https://forms/reschedule", "?", "v=1">>]

MixedConfig ==
    [FORM_URL_1 |-> <<"https://forms/book", "?", "v=1">>,
     FORM_URL_2 |-> <<"https://forms/book-fp01">>,
     cancelAppointmentFormUrl |-> <<"https://forms/cancel">>,
     rescheduleAppointmentFormUrl |-> <<"https://forms/reschedule", "?", "v=1">>]

UnsetConfig ==
    [FORM_URL_1 |-> <<"https://forms/book">>,
     FORM_URL_2 |-> NULL,
     cancelAppointmentFormUrl |-> NULL,
     rescheduleAppointmentFormUrl |-> NULL]

Configs == {PlainConfig, QueryConfig, MixedConfig, UnsetConfig}

\* pinecone.Index(PINECONE_INDEX_NAME)
Index == [name |-> "PINECONE_INDEX_NAME"]

\* Tags as the upstream composer writes them, and broken ones.
TagParts ==
    {<<"[", "SESSION_ID:", " ", "s1", "]", " ">>,
     <<"[", "SESSION_ID:", " ", "]">>,
     <<"[", "BOT_ID:", " ", "fp01", "]", " ">>,
     <<"[", "BOT_ID:", "b1", "]">>,
     <<"[", "BOT_ID:", " ", "]">>,
     <<"[", "PATH:", " ", "e1", "/", "acme", "/", "Xyz", "]", " ">>,
     <<"[", "PATH:", "e1", "/", "fp01", "/", "]">>,
     <<"[", "PATH:", "/", "]">>,
     <<"[", "PATH:", "e1">>}

RECURSIVE Concat(_)
Concat(parts) == IF parts = <<>> THEN <<>> ELSE Head(parts) \o Concat(Tail(parts))

Texts == {<<>>, <<"book me in">>}

\* A query: at most MaxTags tag parts, then the user's text.
Queries == {Concat(tags) \o text : tags \in Strs(TagParts, MaxTags), text \in Texts}

SessionArgs == {NULL, <<>>, <<"s2">>}
BotArgs == {NULL, <<>>, <<"fp01">>, <<"b2">>}
Times == 1..MaxTs

\* The inputs of the interleaving specification.
ConcQueries ==
    {<<"book me in">>,
     <<"[", "SESSION_ID:", " ", "s1", "]", " ", "[", "BOT_ID:", " ", "fp01", "]", " ">>}
ConcSessionArgs == {NULL, <<"s2">>}
ConcBotArgs == {NULL}

InitTools ==
    /\ message = NULL
    /\ context = NoContext
    /\ recontext = NoContext
    /\ path = NULL
    /\ derived = NULL
    /\ step = "tools"
    /\ config \in Configs
    /\ index = Index
    /\ calls = [c \in Callers |-> IdleCall]

\* A caller starts a tool only when it has no call in progress.
Idle(c) == calls[c].pc = "idle"

Step(cs, qs, ss, bs) ==
    \E c \in cs :
        \/ /\ Idle(c)
           /\ \E q \in qs, s \in ss, b \in bs, now \in Times :
                book_appointment_tool(c, q, s, b, now)
        \/ /\ Idle(c)
           /\ \E q \in qs, s \in ss, b \in bs, now \in Times :
                cancel_appointment_tool(c, q, s, b, now)
        \/ /\ Idle(c)
           /\ \E q \in qs, s \in ss, b \in bs, now \in Times :
                reschedule_appointment_tool(c, q, s, b, now)
        \/ /\ Idle(c)
           /\ \E q \in qs, s \in ss, b \in bs : rag_retrieval_tool(c, q, s, b)
        \/ \E outcome \in Outcomes : search_records(c, outcome)
        \/ rag_retrieval_return(c)
        \/ Complete(c)

\* One invocation at a time, over every input.
Next == Step({1}, Queries, SessionArgs, BotArgs)

\* Invocations of all callers interleaved, over a few inputs.
NextConc == Step(Callers, ConcQueries, ConcSessionArgs, ConcBotArgs)

Spec == InitTools /\ [][Next]_vars
SpecConc == InitTools /\ [][NextConc]_vars

----------------------------------------------------------------------------
(* Drivers of the two pure functions: the input is drawn in Init and the   *)
(* actions apply the function.                                             *)

Lexemes == {"[", "]", " ", "a", "SESSION_ID:", "PATH:", "BOT_ID:"}
NestLexemes == {"[", "]", "a", "SESSION_ID:", "PATH:"}
PathLexemes == {"/", "a", "b", " "}

IdleCalls == [c \in Callers |-> IdleCall]

Extract ==
    /\ step = "start"
    /\ message # NULL
    /\ context' = extract_context_from_message(message)
    /\ step' = "extracted"
    /\ UNCHANGED <<message, recontext, path, derived, config, index, calls>>

ReExtract ==
    /\ step = "extracted"
    /\ recontext' = extract_context_from_message(context.clean_message)
    /\ step' = "reextracted"
    /\ UNCHANGED <<message, context, path, derived, config, index, calls>>

DerivePath ==
    /\ step = "start"
    /\ message = NULL
    /\ derived' = get_bot_id_from_path(path)
    /\ step' = "derived"
    /\ UNCHANGED <<message, context, recontext, path, config, index, calls>>

InitExtractOver(msgs) ==
    /\ message \in msgs
    /\ context = NoContext
    /\ recontext = NoContext
    /\ path = NULL
    /\ derived = NULL
    /\ step = "start"
    /\ config = PlainConfig
    /\ index = Index
    /\ calls = IdleCalls

InitExtract == InitExtractOver(Strs(Lexemes, MaxMsgLen))
InitNest == InitExtractOver(Strs(NestLexemes, MaxNestLen))

InitPath ==
    /\ message = NULL
    /\ context = NoContext
    /\ recontext = NoContext
    /\ path \in Strs(PathLexemes, MaxPathLen) \cup {NULL}
    /\ derived = NULL
    /\ step = "start"
    /\ config = PlainConfig
    /\ index = Index
    /\ calls = IdleCalls

NextExtract == Extract \/ ReExtract

SpecExtract == InitExtract /\ [][NextExtract]_vars
SpecNest == InitNest /\ [][NextExtract]_vars
SpecPath == InitPath /\ [][DerivePath]_vars

----------------------------------------------------------------------------
(* Vocabulary of the properties *)

TagPrefixes == {SESSION_TAG, PATH_TAG, BOT_TAG}

\* A tag with a value: one of the three search patterns matches somewhere.
HasRecognizedTag(s) ==
    \E prefix \in TagPrefixes, i \in 1..Len(s) : SearchMatchesAt(s, prefix, i)

\* A tag with or without a value: a prefix with a "]" somewhere after it.
HasTagOccurrence(s) ==
    \E prefix \in TagPrefixes, i \in 1..(Len(s) - 1) :
        SubSeq(s, i, i + 1) = prefix /\ FirstClose(s, i + 2) # 0

NoFields(ctx) == ctx.session_id = NULL /\ ctx.path = NULL /\ ctx.bot_id = NULL

\* The run of non-'/' characters that ends at the last non-'/' character.
LastNonEmptySegment(p) ==
    LET N == {i \in 1..Len(p) : p[i] # "/"}
    IN  IF p = NULL \/ N = {} THEN <<>>
        ELSE LET e == CHOOSE i \in N : \A k \in N : k <= i
                 S == {i \in 1..e : p[i] = "/"}
                 b == IF S = {} THEN 0 ELSE CHOOSE i \in S : \A k \in S : k <= i
             IN  SubSeq(p, b + 1, e)

\* The Tenant Resolver's precedence: tag, explicit argument, tagged path.
ResolvedTenant(query, bot_id) ==
    LET ctx == extract_context_from_message(query)
    IN  IF Truthy(ctx.bot_id) THEN ctx.bot_id
        ELSE IF Truthy(bot_id) THEN bot_id
        ELSE LastNonEmptySegment(ctx.path)

ExpectedSession(query, session_id) ==
    LET tagged == re_search(query, SESSION_TAG)
    IN  IF Truthy(tagged) THEN tagged
        ELSE IF Truthy(session_id) THEN session_id
        ELSE FALLBACK_SESSION

ExpectedFormUrl(base, session_id, now) ==
    base \o <<IF \E i \in 1..Len(base) : base[i] = "?" THEN "&" ELSE "?">>
         \o <<"session_id=">> \o session_id \o <<"&ts=", ToString(now)>>

FormTools == {"book", "cancel", "reschedule"}

Templates(tool) ==
    IF tool = "book" THEN {config.FORM_URL_1, config.FORM_URL_2}
    ELSE IF tool = "cancel" THEN {config.cancelAppointmentFormUrl}
    ELSE {config.rescheduleAppointmentFormUrl}

FormSuccess(c) ==
    /\ calls[c].tool \in FormTools
    /\ calls[c].pc = "returned"
    /\ calls[c].result.success

RagAt(c, pcs) == calls[c].tool = "rag" /\ calls[c].pc \in pcs

----------------------------------------------------------------------------
(* Properties *)

\* C1: the namespace handed to index.search_records is the tag's tenant id if
\* the query has one, else the explicit bot_id if given, else the last segment
\* of the tagged path if that is non-empty, else "hr4s".
C1_NamespacePrecedence ==
    \A c \in Callers :
        RagAt(c, {"searching", "responded", "returned"}) =>
            LET tenant == ResolvedTenant(calls[c].query, calls[c].bot_id)
            IN  calls[c].request.namespace =
                    IF tenant # <<>> THEN tenant ELSE DEFAULT_NAMESPACE

C1_Witness ==
    \E c \in Callers :
        /\ RagAt(c, {"searching"})
        /\ calls[c].query = <<"[", "PATH:", " ", "e1", "/", "acme", "/", "Xyz", "]", " ",
                              "book me in">>
        /\ calls[c].bot_id = NULL
        /\ calls[c].request.namespace = <<"Xyz">>

\* C2: for a message with at least one recognized tag, the cleaned message has
\* no recognized tag left, and extracting from it again returns the same
\* cleaned message and no session_id, path or bot_id.
C2_ExtractIdempotent ==
    (step = "reextracted" /\ HasRecognizedTag(message)) =>
        /\ ~HasRecognizedTag(context.clean_message)
        /\ recontext.clean_message = context.clean_message
        /\ NoFields(recontext)

\* C3 as stated: for a message without any tag, clean_message is the message
\* unchanged and the three fields are None.
C3_UnchangedWithoutTags ==
    (step # "start" /\ ~HasTagOccurrence(message)) =>
        /\ context.clean_message = message
        /\ NoFields(context)

\* C3 as amended: for a message in which no tag occurs, with or without a
\* value, clean_message is the message with leading and trailing whitespace
\* stripped and the three fields are None.
C3_StrippedWithoutTags ==
    (step # "start" /\ ~HasTagOccurrence(message)) =>
        /\ context.clean_message = Strip(message)
        /\ NoFields(context)

C3_Witness ==
    /\ step = "extracted"
    /\ message = <<" ", "[", "a", "]", " ">>
    /\ context.clean_message = <<"[", "a", "]">>

\* C4: with both templates configured, a booking builds its URL from
\* FORM_URL_2 exactly when the tenant resolved by tag, else explicit bot_id,
\* else tagged path is "fp01", and from FORM_URL_1 otherwise.
C4_BookTemplateByResolvedTenant ==
    \A c \in Callers :
        (FormSuccess(c) /\ calls[c].tool = "book" /\ NULL \notin Templates("book")) =>
            LET tenant == ResolvedTenant(calls[c].query, calls[c].bot_id)
                base == IF tenant = RESERVED_BOT
                        THEN config.FORM_URL_2 ELSE config.FORM_URL_1
            IN  calls[c].result.form_url =
                    ExpectedFormUrl(base, calls[c].result.session_id, calls[c].now)

\* C5: the session_id of a form tool's success payload is the tagged session
\* id if it is non-empty, else the non-empty explicit session_id, else
\* "fallback-session-id"; it is never empty or None.
C5_SessionAlwaysPresent ==
    \A c \in Callers :
        FormSuccess(c) =>
            /\ calls[c].result.session_id =
                    ExpectedSession(calls[c].query, calls[c].session_id)
            /\ Truthy(calls[c].result.session_id)

C5_Witness ==
    \E c \in Callers :
        /\ FormSuccess(c)
        /\ calls[c].query = <<"book me in">>
        /\ calls[c].session_id = NULL
        /\ calls[c].result.session_id = FALLBACK_SESSION

\* C6: the form_url of a success payload is the tool's template, then '&' if
\* the template has a '?' and '?' otherwise, then session_id=<the payload's
\* session_id>&ts=<the clock reading>.
C6_FormUrlShape ==
    \A c \in Callers :
        FormSuccess(c) =>
            \E base \in Templates(calls[c].tool) :
                /\ base # NULL
                /\ calls[c].result.form_url =
                        ExpectedFormUrl(base, calls[c].result.session_id, calls[c].now)

C6_Witness ==
    \E c \in Callers :
        /\ FormSuccess(c)
        /\ calls[c].tool = "cancel"
        /\ calls[c].query = <<"[", "SESSION_ID:", " ", "s1", "]", " ", "book me in">>
        /\ calls[c].result.form_url =
                <<"https://forms/cancel", "?", "v=1", "&", "session_id=", "s1",
                  "&ts=", ToString(calls[c].now)>>

\* C7: no exception leaves a tool.  A backend exception makes the retrieval
\* tool return "Error retrieving context from Pinecone: " and its description;
\* a form tool whose template cannot be used returns a payload with success
\* false and the description in error.
C7_NoFaultEscapes ==
    \A c \in Callers :
        /\ calls[c].pc # "raised"
        /\ (RagAt(c, {"returned"}) /\ calls[c].response.kind = "raise") =>
                calls[c].result =
                    <<"Error retrieving context from Pinecone: ">> \o calls[c].response.error
        /\ (calls[c].tool \in FormTools /\ calls[c].pc = "returned") =>
                \/ calls[c].result.success
                \/ /\ Templates(calls[c].tool) \cap {NULL} # {}
                   /\ calls[c].result.error # <<>>
                   /\ calls[c].result.reply # <<>>
        /\ (calls[c].tool \in FormTools /\ calls[c].pc = "returned"
                /\ Templates(calls[c].tool) = {NULL}) =>
                ~calls[c].result.success

C7_Witness ==
    \E c \in Callers :
        /\ RagAt(c, {"returned"})
        /\ calls[c].response.kind = "raise"
        /\ calls[c].result = <<"Error retrieving context from Pinecone: ", "timeout">>

\* C8: a search that ends without an exception and with no hits returns the
\* fixed "nothing found" message; the retrieval tool never returns "".
C8_NothingFound ==
    \A c \in Callers :
        RagAt(c, {"returned"}) =>
            /\ (calls[c].response.kind = "hits" /\ calls[c].response.hits = <<>>) =>
                    calls[c].result = NOT_FOUND
            /\ calls[c].result # <<>>

C8_Witness ==
    \E c \in Callers :
        /\ RagAt(c, {"returned"})
        /\ calls[c].response.kind = "hits"
        /\ calls[c].response.hits = <<>>
        /\ calls[c].result = NOT_FOUND

\* C9: get_bot_id_from_path returns the last non-empty '/'-separated segment
\* of the path, and "" for an empty path, for None and for a path of '/' only.
C9_LastSegment ==
    step = "derived" => derived = LastNonEmptySegment(path)

C9_Witness ==
    /\ step = "derived"
    /\ path = <<"/", "a", "/", "b">>
    /\ derived = <<"b">>

\* What caller c's invocation returns when it runs alone on the same inputs,
\* clock reading and backend response.
AloneResult(c) ==
    LET k == calls[c]
    IN  IF k.tool = "rag" THEN rag_result(k.response).result
        ELSE LET r == form_context(k.query, k.session_id, k.bot_id)
                 url == IF k.tool = "book" THEN book_form_url(r.bot_id)
                        ELSE IF k.tool = "cancel" THEN config.cancelAppointmentFormUrl
                        ELSE config.rescheduleAppointmentFormUrl
                 built == form_url_with_session(url, r.session_id, k.now)
             IN  IF built.ok
                 THEN [form_url |-> built.value, success |-> TRUE,
                       session_id |-> r.session_id]
                 ELSE [error |-> built.error, success |-> FALSE]

SameButReply(result, alone) ==
    IF alone.success
    THEN /\ result.success
         /\ result.form_url = alone.form_url
         /\ result.session_id = alone.session_id
    ELSE /\ ~result.success
         /\ result.error = alone.error

\* C10: under every interleaving no invocation changes the configuration or
\* the index handle, and what an invocation returns is what it returns when
\* run alone on the same inputs and backend response, whatever the
\* configuration was when the server started.
C10_Isolation ==
    /\ [][config' = config /\ index' = index]_vars
    /\ [](\A c \in Callers :
            calls[c].pc = "returned" =>
                IF calls[c].tool = "rag"
                THEN /\ calls[c].result = AloneResult(c)
                     /\ calls[c].request.namespace =
                            rag_context(calls[c].query, calls[c].session_id,
                                        calls[c].bot_id).namespace
                ELSE SameButReply(calls[c].result, AloneResult(c)))

C10_Witness ==
    /\ calls[1].pc = "returned" /\ calls[1].tool = "rag"
    /\ calls[2].pc = "returned" /\ calls[2].tool = "book"
    /\ calls[1].session_id # calls[2].session_id

====
